---- MODULE Spec2Model ----
(***************************************************************************)
(* Model of the external-process supervisor of ewp-gui                     *)
(* (src/ewp-gui/src/CoreProcess.cpp, CoreProcess.h, EWPNode.h).            *)
(*                                                                         *)
(* All slots of CoreProcess run on the Qt GUI thread, so every handler     *)
(* runs to completion before the next one starts.  The handlers are        *)
(* written as operators from a supervisor record to a supervisor record,   *)
(* so that nested calls (stop -> waitForFinished -> onProcessFinished ->   *)
(* scheduleReconnect) compose as in the code; each action of the machine   *)
(* is one entry point invoked by the caller or by the event loop.          *)
(***************************************************************************)
EXTENDS Integers, Sequences, FiniteSets, TLC

\* ---------------------------------------------------------------- bounds
\* exit codes reported by the child range over 0..MaxExitCode
MaxExitCode == 1
\* number of distinct control addresses a child may announce
NumAddrs == 2
\* number of pieces (marker, character, blank, line break) of a chunk read from
\* an output channel
MaxPieces == 5

\* ------------------------------------------------------ program constants
kMaxRetries == 3

\* ------------------------------------------------------------- characters
\* QString values that the code inspects character by character are
\* sequences of one-character strings.
Marker == <<"C","O","N","T","R","O","L","_","A","D","D","R","=">>
Digits == <<"1","2","3","4","5","6","7","8","9">>
AddrOf(i) == <<Digits[i]>>
Addrs == {AddrOf(i) : i \in 1..NumAddrs}
IsSpace(c) == c \in {" ", "\n", "\t", "\r"}
Min(a, b) == IF a < b THEN a ELSE b

\* ------------------------------------------------------------------ nodes
\* The fields of EWPNode that the supervisor reads.  A profile carries at most
\* one of the two credentials (possibly the one of the other protocol).
Nodes == {n \in [serverAddress : {"", "host"},
                 appProtocol : {"EWP", "TROJAN"},
                 uuid : {"", "uuid"},
                 trojanPassword : {"", "pw"}] :
             n.uuid = "" \/ n.trojanPassword = ""}

\* a default-constructed EWPNode (the initial value of lastNode)
DefaultNode == [serverAddress |-> "", appProtocol |-> "EWP",
                uuid |-> "", trojanPassword |-> ""]

\* a default-constructed EWPNode with the fields that a share link carries or
\* that the round trip of a link is compared on
EWPNode == [name |-> "", serverAddress |-> "", serverPort |-> 443,
            uuid |-> "", serverIP |-> "", appProtocol |-> "EWP",
            trojanPassword |-> "", transportMode |-> "WS", wsPath |-> "/",
            grpcServiceName |-> "api", userAgent |-> "",
            enableECH |-> TRUE, echDomain |-> "cloudflare-ech.com",
            dnsServer |-> "dns.alidns.com/dns-query",
            enableFlow |-> TRUE, enablePQC |-> FALSE,
            xhttpMode |-> "auto", xhttpPath |-> "/xhttp"]

isValid(node) ==
    IF node.serverAddress = "" THEN FALSE
    ELSE IF node.appProtocol = "TROJAN" THEN node.trojanPassword # ""
    ELSE node.uuid # ""

\* ----------------------------------------------------------- notifications
\* One entry of the effect log of a handler: a signal emitted by CoreProcess
\* or a call made on the QProcess / QTimer / network manager, in call order.
Ev(sig, n, m, text, line) ==
    [sig |-> sig, n |-> n, m |-> m, text |-> text, line |-> line]
Sig(sig) == Ev(sig, 0, 0, "", <<>>)

Emit(s, e) == [s EXCEPT !.trace = Append(@, e)]

\* the value of gracefulStop at the moment an effect is logged
Flag(s) == IF s.gracefulStop THEN "flag" ELSE "noflag"

\* the path returned by generateConfigFile: tempDir + "/ewp-gui-config-<pid>.json"
ConfigPath == "ewp-gui-config-pid.json"

VARIABLES
    process,        \* "null" or "obj": the QProcess* member
    pstate,         \* QProcess::state() of *process: "NotRunning", "Starting", "Running"
    retryActive,    \* retryTimer->isActive()
    retryInterval,  \* interval of the pending retry timer (ms), 0 when none is pending
    retryDue,       \* the delay of the last started retry timer has elapsed
    controlAddr,    \* QString controlAddr (character sequence)
    lastError,      \* QString lastError (tag of the message)
    configFilePath, \* QString configFilePath ("" = empty)
    fileExists,     \* the file ConfigPath exists on disk
    gracefulStop,   \* bool gracefulStop
    retryCount,     \* int retryCount
    lastNode,       \* EWPNode lastNode
    lastTunMode,    \* bool lastTunMode
    cfgNode,        \* profile of the config last written by generateConfigFile
    cfgTun,         \* tunMode of the config last written by generateConfigFile
    coreExecutable, \* QString coreExecutable, set by the constructor
    files,          \* the files of the search locations that existed at construction
    lastData,       \* the bytes read by the handler that ran last (<<>> if it read none)
    trace,          \* effects of the handler that ran last, in order
    op,             \* entry point that ran last
    stopCancelled,  \* history: stop() cancelled a pending retry timer and start() was not called since
    attempts,       \* history: attemptReconnect runs since the last start() or stop() call
    calledIn,       \* history: state in which the last start()/stop() was called ("-" after other events)
    reqNode,        \* history: profile of the last start() call that spawned a child
    reqTun,         \* history: tunMode of the last start() call that spawned a child
    addrThisRun,    \* history: the running child has announced a control address
    e2e,            \* history: progress along the end-to-end scenario of start, crash, crash, restart
    startedOpen,    \* history: started has been emitted and stopped has not been emitted since
    linkNode,       \* the node handed to ShareLink::generateLink
    link,           \* the link it returned, <<>> before the call
    parsed          \* the node ShareLink::parseLink returned for link, a default node before the call

vars == <<process, pstate, retryActive, retryInterval, retryDue, controlAddr,
          lastError, configFilePath, fileExists, gracefulStop, retryCount,
          lastNode, lastTunMode, cfgNode, cfgTun, coreExecutable, files,
          lastData, trace, op, stopCancelled, attempts, calledIn, reqNode, reqTun, addrThisRun, e2e,
          startedOpen, linkNode, link, parsed>>

\* the variables of the share-link round trip
linkVars == <<linkNode, link, parsed>>
\* the variables of the supervisor and its history
supVars == <<process, pstate, retryActive, retryInterval, retryDue, controlAddr,
             lastError, configFilePath, fileExists, gracefulStop, retryCount,
             lastNode, lastTunMode, cfgNode, cfgTun, coreExecutable, files,
             lastData, trace, op, stopCancelled, attempts, calledIn, reqNode, reqTun,
             addrThisRun, e2e, startedOpen>>

\* the supervisor as one record, handed through the handlers
Sup == [process |-> process, pstate |-> pstate, retryActive |-> retryActive,
        retryInterval |-> retryInterval, retryDue |-> retryDue,
        controlAddr |-> controlAddr, lastError |-> lastError,
        configFilePath |-> configFilePath, fileExists |-> fileExists,
        gracefulStop |-> gracefulStop, retryCount |-> retryCount,
        lastNode |-> lastNode, lastTunMode |-> lastTunMode,
        cfgNode |-> cfgNode, cfgTun |-> cfgTun,
        trace |-> <<>>]

Commit(s) ==
    /\ process' = s.process
    /\ pstate' = s.pstate
    /\ retryActive' = s.retryActive
    /\ retryInterval' = s.retryInterval
    /\ retryDue' = s.retryDue
    /\ controlAddr' = s.controlAddr
    /\ lastError' = s.lastError
    /\ configFilePath' = s.configFilePath
    /\ fileExists' = s.fileExists
    /\ gracefulStop' = s.gracefulStop
    /\ retryCount' = s.retryCount
    /\ lastNode' = s.lastNode
    /\ lastTunMode' = s.lastTunMode
    /\ cfgNode' = s.cfgNode
    /\ cfgTun' = s.cfgTun
    /\ trace' = s.trace

\* ------------------------------------------------- executable resolution
\* The candidate paths of findCoreExecutable in the order of the list (the
\* non-Windows names; the Windows list is the same with ".exe" appended), the
\* bare fallback name, and the two places where a bare name can be found: the
\* working directory (QFile::exists of a relative path) and the directories
\* of PATH (QProcess::start of a bare name).
Candidates == <<[dir |-> "appDir", name |-> "ewp-core"],
                [dir |-> "appDir", name |-> "ewp-core-client"],
                [dir |-> "appDir/..", name |-> "ewp-core"],
                [dir |-> "appDir/..", name |-> "ewp-core-client"]>>
Fallback == [dir |-> "", name |-> "ewp-core"]
CwdFile == [dir |-> "cwd", name |-> "ewp-core"]
PathFile == [dir |-> "PATH", name |-> "ewp-core"]
AllFiles == {Candidates[i] : i \in 1..Len(Candidates)} \cup {CwdFile, PathFile}

\* QFileInfo::absoluteFilePath(): the absolute path without redundant ".."
absoluteFilePath(path) ==
    IF path.dir = "appDir/.." THEN [path EXCEPT !.dir = "appParent"] ELSE path
\* QFile::exists(path) with the files fs on disk: a bare name is looked up in
\* the working directory
exists(path, fs) ==
    CASE path.dir = "" -> [path EXCEPT !.dir = "cwd"] \in fs
      [] path.dir = "appParent" -> [path EXCEPT !.dir = "appDir/.."] \in fs
      [] OTHER -> path \in fs

findCoreExecutable(fs) ==
    LET found == {i \in 1..Len(Candidates) : exists(Candidates[i], fs)}
    IN  IF found = {} THEN Fallback
        ELSE absoluteFilePath(Candidates[CHOOSE i \in found : \A j \in found : i <= j])

Init ==
    /\ files = {Candidates[1]}
    /\ coreExecutable = findCoreExecutable(files)
    /\ lastData = <<>>
    /\ process = "null"
    /\ pstate = "NotRunning"
    /\ retryActive = FALSE
    /\ retryInterval = 0
    /\ retryDue = FALSE
    /\ controlAddr = <<>>
    /\ lastError = ""
    /\ configFilePath = ""
    /\ fileExists = FALSE
    /\ gracefulStop = FALSE
    /\ retryCount = 0
    /\ lastNode = DefaultNode
    /\ lastTunMode = FALSE
    /\ cfgNode = DefaultNode
    /\ cfgTun = FALSE
    /\ trace = <<>>
    /\ op = "init"
    /\ stopCancelled = FALSE
    /\ attempts = 0
    /\ calledIn = "-"
    /\ reqNode = DefaultNode
    /\ reqTun = FALSE
    /\ addrThisRun = FALSE
    /\ e2e = 0
    /\ startedOpen = FALSE
    /\ linkNode = EWPNode
    /\ link = <<>>
    /\ parsed = EWPNode

\* ------------------------------------------------------------- arithmetic
\* a << n; the only use is 2 << retryCount with retryCount < kMaxRetries, far
\* below the width of int
Shl(a, n) == a * 2^n

\* ------------------------------------------------------- string operations
\* QString::trimmed(): whitespace removed from both ends
trimmed(t) ==
    LET text == {i \in 1..Len(t) : ~IsSpace(t[i])}
    IN  IF text = {} THEN <<>>
        ELSE SubSeq(t, CHOOSE i \in text : \A j \in text : i <= j,
                       CHOOSE i \in text : \A j \in text : j <= i)

\* QString::split('\n'): the pieces between separators, empty pieces kept
split(t) ==
    LET breaks == {i \in 1..Len(t) : t[i] = "\n"}
        \* the position of the k-th separator; 0 and Len(t) + 1 enclose the text
        at(k) == IF k = 0 THEN 0
                 ELSE IF k > Cardinality(breaks) THEN Len(t) + 1
                 ELSE CHOOSE i \in breaks : Cardinality({j \in breaks : j <= i}) = k
    IN  [k \in 1..(Cardinality(breaks) + 1) |-> SubSeq(t, at(k - 1) + 1, at(k) - 1)]

startsWith(t, prefix) ==
    Len(t) >= Len(prefix) /\ SubSeq(t, 1, Len(prefix)) = prefix
\* QString::mid(pos): the characters from 0-based position pos on
mid(t, pos) == SubSeq(t, pos + 1, Len(t))

\* -------------------------------------------------------------- handlers
isRunning(s) == s.process # "null" /\ s.pstate = "Running"

\* QTimer::stop() and QTimer::start(msec) on retryTimer
timerStop(s) == [s EXCEPT !.retryActive = FALSE, !.retryInterval = 0]
timerStart(s, msec) ==
    Emit([s EXCEPT !.retryActive = TRUE, !.retryInterval = msec, !.retryDue = FALSE],
         Ev("timerStart", msec, 0, "", <<>>))

\* scheduleReconnect with the delay computed after the increment
scheduleReconnect_shiftAfter(s) ==
    IF s.retryCount >= kMaxRetries
    THEN [Emit(s, Sig("reconnectFailed")) EXCEPT !.retryCount = 0]
    ELSE LET s1 == [s EXCEPT !.retryCount = @ + 1]
             delaySec == Shl(2, s1.retryCount)
             s2 == Emit(s1, Ev("reconnecting", s1.retryCount, kMaxRetries, "", <<>>))
             s3 == Emit(s2, Ev("logReceived", s1.retryCount, delaySec, "crashed", <<>>))
         IN  timerStart(s3, delaySec * 1000)

\* scheduleReconnect that gives up one attempt later
scheduleReconnect_offByOne(s) ==
    IF s.retryCount > kMaxRetries
    THEN [Emit(s, Sig("reconnectFailed")) EXCEPT !.retryCount = 0]
    ELSE LET delaySec == Shl(2, s.retryCount)
             s1 == [s EXCEPT !.retryCount = @ + 1]
             s2 == Emit(s1, Ev("reconnecting", s1.retryCount, kMaxRetries, "", <<>>))
             s3 == Emit(s2, Ev("logReceived", s1.retryCount, delaySec, "crashed", <<>>))
         IN  timerStart(s3, delaySec * 1000)

scheduleReconnect(s) ==
    IF s.retryCount >= kMaxRetries
    THEN [Emit(s, Sig("reconnectFailed")) EXCEPT !.retryCount = 0]
    ELSE LET delaySec == Shl(2, s.retryCount)
             s1 == [s EXCEPT !.retryCount = @ + 1]
             s2 == Emit(s1, Ev("reconnecting", s1.retryCount, kMaxRetries, "", <<>>))
             s3 == Emit(s2, Ev("logReceived", s1.retryCount, delaySec, "crashed", <<>>))
         IN  timerStart(s3, delaySec * 1000)

\* onProcessStarted that resets the retry counter
onProcessStarted_resetsCount(s) == Emit([s EXCEPT !.retryCount = 0], Sig("started"))

onProcessStarted(s) == Emit(s, Sig("started"))

\* onProcessFinished that also counts a non-zero exit code as a crash
onProcessFinished_exitCode(s, exitCode, exitStatus) ==
    LET crashed == (exitStatus = "CrashExit" \/ exitCode # 0) /\ ~s.gracefulStop
        s1 == [s EXCEPT !.gracefulStop = FALSE, !.controlAddr = <<>>]
        s2 == Emit(s1, Sig("stopped"))
    IN  IF crashed THEN scheduleReconnect(s2) ELSE s2

onProcessFinished(s, exitCode, exitStatus) ==
    LET crashed == exitStatus = "CrashExit" /\ ~s.gracefulStop
        s1 == [s EXCEPT !.gracefulStop = FALSE, !.controlAddr = <<>>]
        s2 == Emit(s1, Sig("stopped"))
    IN  IF crashed THEN scheduleReconnect(s2) ELSE s2

onProcessError(s, error) ==
    IF s.gracefulStop /\ error = "Crashed" THEN s
    ELSE Emit(s, Ev("errorOccurred", 0, 0,
                    CASE error = "FailedToStart" -> "ProcessFailedToStart"
                      [] error = "Crashed" -> "ProcessCrashed"
                      [] error = "Timedout" -> "ProcessTimedout"
                      [] OTHER -> "ProcessUnknownError", <<>>))

\* What QProcess does when it notices that the child has exited: its state
\* becomes NotRunning, errorOccurred(Crashed) is emitted for a crash exit and
\* then finished(exitCode, exitStatus); both are connected directly to the
\* slots of CoreProcess.  The logged entry carries the exit code, the exit
\* status and whether gracefulStop was set when the exit was observed.
processDied(s, exitCode, exitStatus) ==
    LET s1 == Emit([s EXCEPT !.pstate = "NotRunning"],
                   Ev("finished", exitCode, IF s.gracefulStop THEN 1 ELSE 0, exitStatus, <<>>))
        s2 == IF exitStatus = "CrashExit" THEN onProcessError(s1, "Crashed") ELSE s1
    IN  onProcessFinished(s2, exitCode, exitStatus)

\* generateConfigFile: <<supervisor, returned path>>; saveOk is the result of
\* ConfigGenerator::saveConfig, which creates or truncates the file
generateConfigFile(s, node, tunMode, saveOk) ==
    IF ~saveOk THEN <<s, "">>
    ELSE <<[s EXCEPT !.fileExists = TRUE, !.cfgNode = node, !.cfgTun = tunMode],
           ConfigPath>>

\* the error exits of startCore that emit errorOccurred(lastError)
failStart(s, err) ==
    Emit([s EXCEPT !.lastError = err], Ev("errorOccurred", 0, 0, err, <<>>))

\* launch that keeps the QProcess when waitForStarted fails
launch_keepsHandle(s, node, tunMode, env) ==
    LET s1 == [s EXCEPT !.lastNode = node, !.lastTunMode = tunMode]
        g  == generateConfigFile(s1, node, tunMode, env.saveOk)
        s2 == [g[1] EXCEPT !.configFilePath = g[2]]
    IN  IF s2.configFilePath = ""
        THEN <<failStart(s2, "ConfigMaterializationFailed"), FALSE>>
        ELSE
          LET s3 == Emit([s2 EXCEPT !.process = "obj", !.pstate = "Starting"],
                         Sig("spawn"))
          IN  IF env.started = "started"
              THEN <<onProcessStarted([s3 EXCEPT !.pstate = "Running"]), TRUE>>
              ELSE
                LET s4 == IF env.started = "failedToStart"
                          THEN onProcessError([s3 EXCEPT !.pstate = "NotRunning"],
                                              "FailedToStart")
                          ELSE s3
                IN  <<failStart(s4, "StartupTimeout"), FALSE>>

\* launch that stores the request only once its config has been written
launch_storesAfterConfig(s, node, tunMode, env) ==
    LET g  == generateConfigFile(s, node, tunMode, env.saveOk)
    IN  IF g[2] = ""
        THEN <<failStart(g[1], "ConfigMaterializationFailed"), FALSE>>
        ELSE
          LET s2 == [g[1] EXCEPT !.lastNode = node, !.lastTunMode = tunMode,
                                 !.configFilePath = g[2]]
              s3 == Emit([s2 EXCEPT !.process = "obj", !.pstate = "Starting"],
                         Sig("spawn"))
          IN  IF env.started = "started"
              THEN <<onProcessStarted([s3 EXCEPT !.pstate = "Running"]), TRUE>>
              ELSE
                LET s4 == IF env.started = "failedToStart"
                          THEN onProcessError([s3 EXCEPT !.pstate = "NotRunning"],
                                              "FailedToStart")
                          ELSE s3
                    s5 == failStart(s4, "StartupTimeout")
                IN  <<[s5 EXCEPT !.process = "null", !.pstate = "NotRunning"], FALSE>>

\* lines 88-124 of startCore: the config is written and the child spawned.
\* When waitForStarted(5000) fails the QProcess is deleted at once; a child
\* that has not confirmed its start by then is destroyed with it, and no
\* signal of that QProcess reaches the supervisor afterwards.
launch(s, node, tunMode, env) ==
    LET s1 == [s EXCEPT !.lastNode = node, !.lastTunMode = tunMode]
        g  == generateConfigFile(s1, node, tunMode, env.saveOk)
        s2 == [g[1] EXCEPT !.configFilePath = g[2]]
    IN  IF s2.configFilePath = ""
        THEN <<failStart(s2, "ConfigMaterializationFailed"), FALSE>>
        ELSE
          LET s3 == Emit([s2 EXCEPT !.process = "obj", !.pstate = "Starting"],
                         Sig("spawn"))
          IN  IF env.started = "started"
              THEN <<onProcessStarted([s3 EXCEPT !.pstate = "Running"]), TRUE>>
              ELSE
                LET s4 == IF env.started = "failedToStart"
                          THEN onProcessError([s3 EXCEPT !.pstate = "NotRunning"],
                                              "FailedToStart")
                          ELSE s3
                    s5 == failStart(s4, "StartupTimeout")
                IN  <<[s5 EXCEPT !.process = "null", !.pstate = "NotRunning"], FALSE>>

\* startCore without the isValid check
startCore_noValidation(s, node, tunMode, env) ==
    IF isRunning(s) THEN <<[s EXCEPT !.lastError = "AlreadyRunning"], FALSE>>
    ELSE IF ~env.exe THEN <<failStart(s, "ExecutableNotFound"), FALSE>>
    ELSE launch(s, node, tunMode, env)

\* startCore without the isRunning check
startCore_noRunningCheck(s, node, tunMode, env) ==
    IF ~env.exe THEN <<failStart(s, "ExecutableNotFound"), FALSE>>
    ELSE IF ~isValid(node) THEN <<failStart(s, "InvalidProfile"), FALSE>>
    ELSE launch(s, node, tunMode, env)

\* startCore that stores the request before any check
startCore_storesFirst(s, node, tunMode, env) ==
    LET s0 == [s EXCEPT !.lastNode = node, !.lastTunMode = tunMode]
    IN  IF isRunning(s0) THEN <<[s0 EXCEPT !.lastError = "AlreadyRunning"], FALSE>>
        ELSE IF ~env.exe THEN <<failStart(s0, "ExecutableNotFound"), FALSE>>
        ELSE IF ~isValid(node) THEN <<failStart(s0, "InvalidProfile"), FALSE>>
        ELSE launch(s0, node, tunMode, env)

\* startCore: <<supervisor, return value>>.  env.exe: QFile::exists(coreExecutable);
\* env.saveOk: saveConfig succeeded; env.started: outcome of waitForStarted(5000),
\* "started", "failedToStart" (QProcess reports FailedToStart) or "timeout"
startCore(s, node, tunMode, env) ==
    IF isRunning(s) THEN <<[s EXCEPT !.lastError = "AlreadyRunning"], FALSE>>
    ELSE IF ~env.exe THEN <<failStart(s, "ExecutableNotFound"), FALSE>>
    ELSE IF ~isValid(node) THEN <<failStart(s, "InvalidProfile"), FALSE>>
    ELSE launch(s, node, tunMode, env)

\* start() that schedules a reconnection when startCore fails
start_schedulesOnFailure(s, node, tunMode, env) ==
    LET r == startCore(timerStop([s EXCEPT !.retryCount = 0]), node, tunMode, env)
    IN  IF ~r[2] THEN <<scheduleReconnect(r[1]), FALSE>> ELSE r

\* start() that leaves the retry timer running
start_keepsTimer(s, node, tunMode, env) ==
    startCore([s EXCEPT !.retryCount = 0], node, tunMode, env)

start(s, node, tunMode, env) ==
    startCore(timerStop([s EXCEPT !.retryCount = 0]), node, tunMode, env)

\* attemptReconnect that logs the attempt after startCore has run
attemptReconnect_logsAfter(s, env) ==
    LET r  == startCore(s, s.lastNode, s.lastTunMode, env)
        s1 == Emit(r[1], Ev("logReceived", s.retryCount, kMaxRetries, "attempting", <<>>))
    IN  IF ~r[2] THEN scheduleReconnect(s1) ELSE s1

\* attemptReconnect that gives up silently when startCore fails
attemptReconnect_noReschedule(s, env) ==
    LET s1 == Emit(s, Ev("logReceived", s.retryCount, kMaxRetries, "attempting", <<>>))
    IN  startCore(s1, s1.lastNode, s1.lastTunMode, env)[1]

attemptReconnect(s, env) ==
    LET s1 == Emit(s, Ev("logReceived", s.retryCount, kMaxRetries, "attempting", <<>>))
        r  == startCore(s1, s1.lastNode, s1.lastTunMode, env)
    IN  IF ~r[2] THEN scheduleReconnect(r[1]) ELSE r[1]

\* QString("http://%1/quit").arg(controlAddr)
QuitUrl(addr) == <<"h","t","t","p",":","/","/">> \o addr \o <<"/","q","u","i","t">>

\* sendQuitRequest posts the request and connects the reply's finished signal
\* to the reply's own deleteLater: no slot of the supervisor is connected, so
\* the outcome of the request is not an event of the machine; what the supervisor observes is
\* whether the child exits within the wait that follows (o.w500)
\* sendQuitRequest without the check for an empty address
sendQuitRequest_noGuard(s) ==
    Emit(s, Ev("postQuit", 0, 0, Flag(s), QuitUrl(s.controlAddr)))

sendQuitRequest(s) ==
    IF s.controlAddr = <<>> THEN s
    ELSE Emit(s, Ev("postQuit", 0, 0, Flag(s), QuitUrl(s.controlAddr)))

\* cleanup at the end of stop(): the temporary config file is removed
removeConfig(s) ==
    IF s.configFilePath # "" /\ s.fileExists THEN [s EXCEPT !.fileExists = FALSE] ELSE s

\* delete process; process = nullptr.  Destroying a QProcess whose child is
\* still running kills it and waits for it; o.dtor tells whether the exit is
\* observed (and finished delivered) during that wait.
deleteProcess(s, o) ==
    LET s1 == IF s.pstate = "Running" /\ o.dtor
              THEN processDied(s, o.code, o.status) ELSE s
    IN  [s1 EXCEPT !.process = "null", !.pstate = "NotRunning"]

\* lines 155-168 of stop(): terminate, kill, delete, cleanup
forceStop(s, o) ==
    LET s1 == Emit(s, Ev("terminate", 0, 0, Flag(s), <<>>))
        s2 == IF o.w300 THEN processDied(s1, o.code, o.status)
              ELSE LET k == Emit(s1, Ev("kill", 0, 0, Flag(s1), <<>>))
                   IN  IF o.w200 THEN processDied(k, o.code, o.status) ELSE k
    IN  removeConfig(deleteProcess(s2, o))

\* stopRunning that never sets gracefulStop
stopRunning_noFlag(s, o) ==
    IF s.controlAddr # <<>>
    THEN LET s2 == sendQuitRequest(s)
         IN  IF o.w500
             THEN removeConfig(deleteProcess(processDied(s2, o.code, o.status), o))
             ELSE forceStop(s2, o)
    ELSE forceStop(s, o)

\* lines 136-169 of stop(), reached with a running process.  o.w500, o.w300,
\* o.w200: results of the three waitForFinished calls; o.code, o.status: how
\* the child exits when it does
stopRunning(s, o) ==
    LET s1 == [s EXCEPT !.gracefulStop = TRUE]
    IN  IF s1.controlAddr # <<>>
        THEN LET s2 == sendQuitRequest(s1)
             IN  IF o.w500
                 THEN removeConfig(deleteProcess(processDied(s2, o.code, o.status), o))
                 ELSE forceStop(s2, o)
        ELSE forceStop(s1, o)

\* stop() that leaves the retry timer running
stop_keepsTimer(s, o) ==
    IF ~isRunning(s) /\ ~s.retryActive THEN s
    ELSE LET s1 == [s EXCEPT !.retryCount = 0]
         IN  IF ~isRunning(s1) THEN s1 ELSE stopRunning(s1, o)

\* stop() that resets the retry state before looking at the state
stop_resetsFirst(s, o) ==
    LET s1 == timerStop([s EXCEPT !.retryCount = 0])
    IN  IF ~isRunning(s1) THEN s1 ELSE stopRunning(s1, o)

stop(s, o) ==
    IF ~isRunning(s) /\ ~s.retryActive THEN s
    ELSE LET s1 == timerStop([s EXCEPT !.retryCount = 0])
         IN  IF ~isRunning(s1) THEN s1 ELSE stopRunning(s1, o)

\* onReadyReadStandardOutput that keeps the first announced address
onReadyReadStandardOutput_keepsFirst(s, data) ==
    IF s.process = "null" THEN s
    ELSE LET text == trimmed(data)
             lines == split(text)
             step(acc, line) ==
                 LET trimmedLine == trimmed(line)
                     a1 == IF startsWith(trimmedLine, Marker) /\ acc.controlAddr = <<>>
                           THEN [acc EXCEPT !.controlAddr = mid(trimmedLine, 13)]
                           ELSE acc
                 IN  Emit(a1, Ev("logReceived", 0, 0, "", trimmedLine))
             loop[i \in 0..Len(lines)] ==
                 IF i = 0 THEN s ELSE step(loop[i - 1], lines[i])
         IN  IF text = <<>> THEN s ELSE loop[Len(lines)]

onReadyReadStandardOutput(s, data) ==
    IF s.process = "null" THEN s
    ELSE LET text == trimmed(data)
             lines == split(text)
             step(acc, line) ==
                 LET trimmedLine == trimmed(line)
                     a1 == IF startsWith(trimmedLine, Marker)
                           THEN [acc EXCEPT !.controlAddr = mid(trimmedLine, 13)]
                           ELSE acc
                 IN  Emit(a1, Ev("logReceived", 0, 0, "", trimmedLine))
             loop[i \in 0..Len(lines)] ==
                 IF i = 0 THEN s ELSE step(loop[i - 1], lines[i])
         IN  IF text = <<>> THEN s ELSE loop[Len(lines)]

ErrPrefix == <<"[","E","R","R","]"," ">>

\* onReadyReadStandardError that looks for the announcement as the primary
\* channel does
onReadyReadStandardError_parsesAddr(s, data) ==
    IF s.process = "null" THEN s
    ELSE LET text == trimmed(data)
             lines == split(text)
             step(acc, line) ==
                 LET trimmedLine == trimmed(line)
                     a1 == IF startsWith(trimmedLine, Marker)
                           THEN [acc EXCEPT !.controlAddr = mid(trimmedLine, 13)]
                           ELSE acc
                 IN  Emit(a1, Ev("logReceived", 0, 0, "", ErrPrefix \o trimmedLine))
             loop[i \in 0..Len(lines)] ==
                 IF i = 0 THEN s ELSE step(loop[i - 1], lines[i])
         IN  IF text = <<>> THEN s ELSE loop[Len(lines)]

onReadyReadStandardError(s, data) ==
    IF s.process = "null" THEN s
    ELSE LET text == trimmed(data)
             lines == split(text)
             loop[i \in 0..Len(lines)] ==
                 IF i = 0 THEN s
                 ELSE Emit(loop[i - 1],
                           Ev("logReceived", 0, 0, "", ErrPrefix \o trimmed(lines[i])))
         IN  IF text = <<>> THEN s ELSE loop[Len(lines)]

\* ---------------------------------------------------------------- inputs
\* Outcomes of one startCore call.  A later outcome is only consulted when the
\* earlier ones succeeded, so one representative per first failure is kept.
StartEnvs == {e \in [exe : BOOLEAN, saveOk : BOOLEAN,
                     started : {"started", "failedToStart", "timeout"}] :
                 /\ (~e.exe => e.saveOk)
                 /\ (~(e.exe /\ e.saveOk) => e.started = "started")}
ExitStatuses == {"NormalExit", "CrashExit"}
ExitCodes == 0..MaxExitCode
\* Outcomes of one stop() call.  The child exits at the first tier that
\* reaches it (quit request, terminate, kill, destruction of the QProcess) or
\* not at all: a wait that succeeded implies that the later ones would.
StopOutcomes == {o \in [w500 : BOOLEAN, w300 : BOOLEAN, w200 : BOOLEAN, dtor : BOOLEAN,
                        code : ExitCodes, status : ExitStatuses] :
                    /\ (o.w500 => o.w300)
                    /\ (o.w300 => o.w200)
                    /\ (o.w200 => o.dtor)}
\* chunks the child writes in the supervisor model
Chunks == {Marker \o a : a \in Addrs} \cup {<<"x", "\n", "\n", "y">>}

\* ---------------------------------------------------------------- actions
\* the state of the supervisor as the caller sees it
StateOf(s) == IF isRunning(s) THEN "Running"
              ELSE IF s.retryActive THEN "Reconnecting"
              ELSE "Idle"
\* the profile of the end-to-end scenario
ProfileA == [serverAddress |-> "host", appProtocol |-> "EWP",
             uuid |-> "uuid", trojanPassword |-> ""]

\* The slots that the caller connects to started and stopped run when the
\* signal is emitted: after a handler, the notification emitted last in its
\* trace tr decides whether a started is still unanswered (open before).
Notified(open, tr) ==
    LET at == {i \in 1..Len(tr) : tr[i].sig \in {"started", "stopped"}}
    IN  IF at = {} THEN open
        ELSE tr[CHOOSE i \in at : \A j \in at : j <= i].sig = "started"

\* the handler that just ran spawned a child / left a child running
SpawnedNow == \E i \in 1..Len(trace') : trace'[i].sig = "spawn"
RunningNow == process' # "null" /\ pstate' = "Running"

\* the caller calls start(node, tunMode); envs are the outcomes that the
\* environment allows for the call
StartWith(envs) ==
    \E node \in Nodes, tunMode \in BOOLEAN, env \in envs :
        /\ Commit(start(Sup, node, tunMode, env)[1])
        /\ op' = "start"
        /\ stopCancelled' = FALSE
        /\ attempts' = 0
        /\ calledIn' = StateOf(Sup)
        /\ reqNode' = IF SpawnedNow THEN node ELSE reqNode
        /\ reqTun' = IF SpawnedNow THEN tunMode ELSE reqTun
        /\ addrThisRun' = (addrThisRun /\ RunningNow /\ ~SpawnedNow)
        /\ e2e' = IF SpawnedNow /\ RunningNow /\ node = ProfileA /\ ~tunMode
                  THEN 1 ELSE 0
        /\ lastData' = <<>>
        /\ startedOpen' = Notified(startedOpen, trace')
        /\ UNCHANGED <<coreExecutable, files, linkNode, link, parsed>>

\* the caller calls stop() (the destructor of CoreProcess is a call of stop())
Stop ==
    \E o \in StopOutcomes :
        /\ Commit(stop(Sup, o))
        /\ op' = "stop"
        /\ stopCancelled' = (stopCancelled \/ (retryActive /\ ~isRunning(Sup)))
        /\ attempts' = 0
        /\ calledIn' = StateOf(Sup)
        /\ e2e' = 0
        /\ addrThisRun' = (addrThisRun /\ RunningNow)
        /\ lastData' = <<>>
        /\ startedOpen' = Notified(startedOpen, trace')
        /\ UNCHANGED <<reqNode, reqTun, coreExecutable, files, linkNode, link, parsed>>

\* the delay of the retry timer elapses, while it is pending or after stop()
\* has cancelled it
TimerElapses ==
    /\ retryActive \/ stopCancelled
    /\ ~retryDue
    /\ retryDue' = TRUE
    /\ op' = "elapse"
    /\ trace' = <<>>
    /\ calledIn' = "-"
    /\ UNCHANGED <<process, pstate, retryActive, retryInterval, controlAddr, lastError,
                   configFilePath, fileExists, gracefulStop, retryCount, lastNode,
                   lastTunMode, cfgNode, cfgTun, stopCancelled,
                   attempts, reqNode, reqTun, addrThisRun, e2e,
                   coreExecutable, files, lastData, startedOpen,
                   linkNode, link, parsed>>

\* the event loop delivers the timeout of the single-shot retry timer
Timeout ==
    /\ retryActive
    /\ retryDue
    /\ \E env \in StartEnvs :
           Commit(attemptReconnect([Sup EXCEPT !.retryActive = FALSE,
                                               !.retryInterval = 0,
                                               !.retryDue = FALSE], env))
    /\ addrThisRun' = FALSE
    /\ e2e' = IF e2e \in {2, 4} /\ SpawnedNow /\ RunningNow THEN e2e + 1 ELSE 0
    /\ op' = "attemptReconnect"
    /\ attempts' = Min(attempts + 1, kMaxRetries + 1)
    /\ calledIn' = "-"
    /\ lastData' = <<>>
    /\ startedOpen' = Notified(startedOpen, trace')
    /\ UNCHANGED <<stopCancelled, reqNode, reqTun, coreExecutable, files,
                   linkNode, link, parsed>>

\* the event loop notices that the running child has exited
ProcessExits ==
    /\ isRunning(Sup)
    /\ \E code \in ExitCodes, status \in ExitStatuses :
           /\ Commit(processDied(Sup, code, status))
           /\ e2e' = IF e2e \in {1, 3} /\ status = "CrashExit" /\ ~gracefulStop
                     THEN e2e + 1 ELSE 0
    /\ op' = "finished"
    /\ calledIn' = "-"
    /\ addrThisRun' = FALSE
    /\ lastData' = <<>>
    /\ startedOpen' = Notified(startedOpen, trace')
    /\ UNCHANGED <<stopCancelled, attempts, reqNode, reqTun, coreExecutable, files,
                   linkNode, link, parsed>>

\* the running child writes one of the chunks to its standard output
ReadOutput(chunks) ==
    /\ isRunning(Sup)
    /\ \E chunk \in chunks :
           /\ Commit(onReadyReadStandardOutput(Sup, chunk))
           /\ lastData' = chunk
    /\ addrThisRun' =
           (\/ addrThisRun
            \/ (/\ controlAddr' # <<>>
                /\ \E i \in 1..Len(trace') : startsWith(trace'[i].line, Marker)))
    /\ op' = "stdout"
    /\ calledIn' = "-"
    /\ UNCHANGED <<stopCancelled, attempts, reqNode, reqTun, e2e,
                   coreExecutable, files, startedOpen, linkNode, link, parsed>>

\* the running child writes one of the chunks to its standard error
ReadError(chunks) ==
    /\ isRunning(Sup)
    /\ \E chunk \in chunks :
           /\ Commit(onReadyReadStandardError(Sup, chunk))
           /\ lastData' = chunk
    /\ op' = "stderr"
    /\ calledIn' = "-"
    /\ UNCHANGED <<stopCancelled, attempts, reqNode, reqTun, addrThisRun, e2e,
                   coreExecutable, files, startedOpen, linkNode, link, parsed>>

Start == StartWith(StartEnvs)
ReadyReadStandardOutput == ReadOutput(Chunks)
ReadyReadStandardError == ReadError(Chunks)

Next ==
    \/ Start
    \/ Stop
    \/ TimerElapses
    \/ Timeout
    \/ ProcessExits
    \/ ReadyReadStandardOutput
    \/ ReadyReadStandardError

Spec == Init /\ [][Next]_vars

\* ------------------------------------------------------------- scheduling
\* retryTimer is a single-shot QTimer of the GUI thread whose timeout is
\* connected to attemptReconnect: once started and not stopped, its delay
\* elapses and the event loop delivers the timeout.  Nothing obliges the
\* caller to call, the child to exit or the child to write.
Fairness == WF_vars(TimerElapses) /\ WF_vars(Timeout)

SpecLive == Init /\ [][Next]_vars /\ Fairness

\* ------------------------------------------------ the output channels alone
\* The two read handlers under every chunk made of at most MaxPieces pieces:
\* the announcement marker, a character, a blank and a line break.  The
\* supervisor is in the state that start(ProfileA, FALSE) leaves when the
\* child has started, and only the child's output arrives: first one such
\* chunk on either channel, then the chunks of Spec.
LogPieces == {Marker, <<"1">>, <<" ">>, <<"\n">>}
RECURSIVE ChunksOf(_)
ChunksOf(n) ==
    IF n = 0 THEN {<<>>}
    ELSE LET shorter == ChunksOf(n - 1)
         IN  shorter \cup {c \o piece : c \in shorter, piece \in LogPieces}
LogChunks == ChunksOf(MaxPieces)

LogInit ==
    /\ files = {Candidates[1]}
    /\ coreExecutable = findCoreExecutable(files)
    /\ lastData = <<>>
    /\ process = "obj"
    /\ pstate = "Running"
    /\ retryActive = FALSE
    /\ retryInterval = 0
    /\ retryDue = FALSE
    /\ controlAddr = <<>>
    /\ lastError = ""
    /\ configFilePath = ConfigPath
    /\ fileExists = TRUE
    /\ gracefulStop = FALSE
    /\ retryCount = 0
    /\ lastNode = ProfileA
    /\ lastTunMode = FALSE
    /\ cfgNode = ProfileA
    /\ cfgTun = FALSE
    /\ trace = <<Sig("spawn"), Sig("started")>>
    /\ op = "start"
    /\ stopCancelled = FALSE
    /\ attempts = 0
    /\ calledIn = "Idle"
    /\ reqNode = ProfileA
    /\ reqTun = FALSE
    /\ addrThisRun = FALSE
    /\ e2e = 1
    /\ startedOpen = TRUE
    /\ linkNode = EWPNode
    /\ link = <<>>
    /\ parsed = EWPNode

LogStandardOutput == op = "start" /\ ReadOutput(LogChunks)
LogStandardError == op = "start" /\ ReadError(LogChunks)

LogNext ==
    \/ LogStandardOutput
    \/ LogStandardError
    \/ ReadyReadStandardOutput
    \/ ReadyReadStandardError

SpecLog == LogInit /\ [][LogNext]_vars

\* ------------------------------------------- the executable resolution alone
\* The supervisor constructed under every set of files of the search
\* locations, and then started by the caller; the files do not change.  startCore finds the executable if QFile::exists(coreExecutable);
\* the child of a spawn can start if the operating system finds the
\* executable: a path that exists, or a bare name that is found in PATH (or,
\* where the platform looks there, in the working directory).
ResolveInit ==
    /\ files \in SUBSET AllFiles
    /\ coreExecutable = findCoreExecutable(files)
    /\ lastData = <<>>
    /\ process = "null"
    /\ pstate = "NotRunning"
    /\ retryActive = FALSE
    /\ retryInterval = 0
    /\ retryDue = FALSE
    /\ controlAddr = <<>>
    /\ lastError = ""
    /\ configFilePath = ""
    /\ fileExists = FALSE
    /\ gracefulStop = FALSE
    /\ retryCount = 0
    /\ lastNode = DefaultNode
    /\ lastTunMode = FALSE
    /\ cfgNode = DefaultNode
    /\ cfgTun = FALSE
    /\ trace = <<>>
    /\ op = "init"
    /\ stopCancelled = FALSE
    /\ attempts = 0
    /\ calledIn = "-"
    /\ reqNode = DefaultNode
    /\ reqTun = FALSE
    /\ addrThisRun = FALSE
    /\ e2e = 0
    /\ startedOpen = FALSE
    /\ linkNode = EWPNode
    /\ link = <<>>
    /\ parsed = EWPNode

\* the outcomes of waitForStarted that the files allow
StartedOutcomes ==
    IF coreExecutable = Fallback
    THEN (IF PathFile \in files THEN {"started"} ELSE {"failedToStart"})
             \cup (IF CwdFile \in files THEN {"started", "failedToStart"} ELSE {})
    ELSE {"started"}
ResolveEnvs ==
    {e \in StartEnvs : /\ e.exe = exists(coreExecutable, files)
                       /\ (e.exe /\ e.saveOk) => e.started \in StartedOutcomes}

ResolveStart == StartWith(ResolveEnvs)

ResolveNext == ResolveStart

SpecResolve == ResolveInit /\ [][ResolveNext]_vars

\* ------------------------------------------------------------- share links
\* ShareLink::generateLink builds a QUrl and returns url.toString();
\* ShareLink::parseLink parses the text with QUrl(link) and reads the parts.
\* A link is the sequence of the pieces of the text: the parts of the URL and
\* the delimiters between them.  The values of the nodes are lower-case host
\* names and texts without delimiters, which QUrl writes and reads unchanged.
PortText(port) == CASE port = 443 -> "443" [] port = 8443 -> "8443"
PortValue(text) == CASE text = "443" -> 443 [] text = "8443" -> 8443

\* QUrlQuery::queryItemValue(key): the value of the first item with the key,
\* an empty string if there is none
queryItemValue(query, key) ==
    LET at == {i \in 1..Len(query) : query[i][1] = key}
    IN  IF at = {} THEN "" ELSE query[CHOOSE i \in at : \A j \in at : i <= j][2]

\* QUrl::toString(): scheme://userName@host:port?key=value&key=value#fragment,
\* without the parts that are not set (port -1, no query item, no fragment)
toString(url) ==
    LET n == Len(url.query)
        piece(j) == LET item == url.query[((j - 1) \div 4) + 1]
                    IN  CASE (j - 1) % 4 = 0 -> item[1]
                          [] (j - 1) % 4 = 1 -> "="
                          [] (j - 1) % 4 = 2 -> item[2]
                          [] OTHER -> "&"
    IN  <<url.scheme, "://">>
        \o (IF url.userName = "" THEN <<>> ELSE <<url.userName, "@">>)
        \o <<url.host>>
        \o (IF url.port = -1 THEN <<>> ELSE <<":", PortText(url.port)>>)
        \o (IF n = 0 THEN <<>> ELSE <<"?">> \o [j \in 1..(4 * n - 1) |-> piece(j)])
        \o (IF url.fragment = "" THEN <<>> ELSE <<"#", url.fragment>>)

\* QUrl(link): the parts of a link of the form that toString writes
QUrl(text) ==
    LET pos(d, t) == LET at == {i \in 1..Len(t) : t[i] = d}
                     IN  IF at = {} THEN 0 ELSE CHOOSE i \in at : \A j \in at : i <= j
        q == pos("?", text)
        f == pos("#", text)
        queryEnd == IF f # 0 THEN f - 1 ELSE Len(text)
        authority == SubSeq(text, 3, IF q # 0 THEN q - 1 ELSE queryEnd)
        a == pos("@", authority)
        hostPort == SubSeq(authority, a + 1, Len(authority))
        items == IF q = 0 THEN <<>> ELSE SubSeq(text, q + 1, queryEnd)
    IN  [scheme |-> text[1],
         userName |-> IF a = 2 THEN authority[1] ELSE "",
         host |-> IF hostPort = <<>> THEN "" ELSE hostPort[1],
         port |-> IF Len(hostPort) = 3 /\ hostPort[2] = ":"
                  THEN PortValue(hostPort[3]) ELSE -1,
         query |-> [i \in 1..((Len(items) + 1) \div 4) |->
                       <<items[4 * i - 3], items[4 * i - 1]>>],
         fragment |-> IF f # 0 /\ f < Len(text) THEN text[f + 1] ELSE ""]

generateLink(node) ==
    LET grpcService == IF node.grpcServiceName # "ProxyService"
                       THEN <<<<"grpcService", node.grpcServiceName>>>> ELSE <<>>
        query ==
            (IF node.appProtocol = "TROJAN" THEN <<<<"protocol", "trojan">>>> ELSE <<>>)
            \o (CASE node.transportMode = "GRPC" -> <<<<"mode", "grpc">>>> \o grpcService
                  [] node.transportMode = "H3GRPC" -> <<<<"mode", "h3grpc">>>> \o grpcService
                  [] node.transportMode = "XHTTP" -> <<<<"mode", "xhttp">>>>
                  [] OTHER -> <<<<"mode", "ws">>>>
                              \o (IF node.wsPath # "/"
                                  THEN <<<<"wsPath", node.wsPath>>>> ELSE <<>>))
            \o (IF node.serverIP # "" THEN <<<<"ip", node.serverIP>>>> ELSE <<>>)
            \o <<<<"ech", IF node.enableECH THEN "1" ELSE "0">>>>
            \o (IF node.enableECH /\ node.echDomain # "cloudflare-ech.com"
                THEN <<<<"echDomain", node.echDomain>>>> ELSE <<>>)
            \o (IF node.enableECH /\ node.dnsServer # "dns.alidns.com/dns-query"
                THEN <<<<"dns", node.dnsServer>>>> ELSE <<>>)
            \o <<<<"flow", IF node.enableFlow THEN "1" ELSE "0">>>>
            \o <<<<"pqc", IF node.enablePQC THEN "1" ELSE "0">>>>
            \o (IF node.transportMode = "XHTTP"
                THEN (IF node.xhttpMode # "auto"
                      THEN <<<<"xhttpMode", node.xhttpMode>>>> ELSE <<>>)
                     \o (IF node.xhttpPath # "/xhttp"
                         THEN <<<<"xhttpPath", node.xhttpPath>>>> ELSE <<>>)
                ELSE <<>>)
    IN  toString([scheme |-> "ewp",
                  userName |-> IF node.appProtocol = "TROJAN"
                               THEN node.trojanPassword ELSE node.uuid,
                  host |-> node.serverAddress,
                  port |-> node.serverPort,
                  fragment |-> node.name,
                  query |-> query])

\* a field keeps its default when the query item is absent or empty
orDefault(value, default) == IF value # "" THEN value ELSE default

parseLink(text) ==
    IF ~(Len(text) >= 2 /\ text[1] = "ewp" /\ text[2] = "://") THEN EWPNode
    ELSE
      LET url == QUrl(text)
          credential == url.userName
          query == url.query
          protocol == queryItemValue(query, "protocol")
          mode == queryItemValue(query, "mode")
      IN  IF credential = "" THEN EWPNode
          ELSE [EWPNode EXCEPT
                  !.serverAddress = url.host,
                  !.serverPort = IF url.port = -1 THEN 443 ELSE url.port,
                  !.name = IF url.fragment = "" THEN url.host ELSE url.fragment,
                  !.appProtocol = IF protocol = "trojan" THEN "TROJAN" ELSE "EWP",
                  !.trojanPassword = IF protocol = "trojan" THEN credential ELSE @,
                  !.uuid = IF protocol = "trojan" THEN @ ELSE credential,
                  !.transportMode = CASE mode = "grpc" -> "GRPC"
                                      [] mode = "h3grpc" -> "H3GRPC"
                                      [] mode = "xhttp" -> "XHTTP"
                                      [] OTHER -> "WS",
                  !.wsPath = orDefault(queryItemValue(query, "wsPath"), @),
                  !.grpcServiceName = orDefault(queryItemValue(query, "grpcService"), @),
                  !.serverIP = queryItemValue(query, "ip"),
                  !.enableECH = (queryItemValue(query, "ech") = "1"),
                  !.echDomain = orDefault(queryItemValue(query, "echDomain"), @),
                  !.dnsServer = orDefault(queryItemValue(query, "dns"), @),
                  !.enableFlow = (queryItemValue(query, "flow") # "0"),
                  !.enablePQC = (queryItemValue(query, "pqc") = "1"),
                  !.xhttpMode = orDefault(queryItemValue(query, "xhttpMode"), @),
                  !.xhttpPath = orDefault(queryItemValue(query, "xhttpPath"), @)]

\* the nodes handed to generateLink: every combination of the values below
\* that is valid (a server address and the credential of its protocol)
LinkNodes ==
    {n \in [name : {"", "node"}, serverAddress : {"host"}, serverPort : {443, 8443},
            uuid : {"", "uuid"}, serverIP : {"", "ip"},
            appProtocol : {"EWP", "TROJAN"}, trojanPassword : {"", "pw"},
            transportMode : {"WS", "GRPC", "XHTTP", "H3GRPC"},
            wsPath : {"/", "/ws"},
            grpcServiceName : {"api", "ProxyService"}, userAgent : {"", "ua"},
            enableECH : BOOLEAN, echDomain : {"cloudflare-ech.com", "ech.example"},
            dnsServer : {"dns.alidns.com/dns-query", "dns.example/dns-query"},
            enableFlow : BOOLEAN, enablePQC : BOOLEAN,
            xhttpMode : {"auto", "stream-one"}, xhttpPath : {"/xhttp"}] :
        /\ n.appProtocol = "EWP" => (n.uuid # "" /\ n.trojanPassword = "")
        /\ n.appProtocol = "TROJAN" => (n.trojanPassword # "" /\ n.uuid = "")}

LinkInit ==
    /\ linkNode \in LinkNodes
    /\ link = <<>>
    /\ parsed = EWPNode
    /\ files = {Candidates[1]}
    /\ coreExecutable = findCoreExecutable(files)
    /\ lastData = <<>>
    /\ process = "null"
    /\ pstate = "NotRunning"
    /\ retryActive = FALSE
    /\ retryInterval = 0
    /\ retryDue = FALSE
    /\ controlAddr = <<>>
    /\ lastError = ""
    /\ configFilePath = ""
    /\ fileExists = FALSE
    /\ gracefulStop = FALSE
    /\ retryCount = 0
    /\ lastNode = DefaultNode
    /\ lastTunMode = FALSE
    /\ cfgNode = DefaultNode
    /\ cfgTun = FALSE
    /\ trace = <<>>
    /\ op = "init"
    /\ stopCancelled = FALSE
    /\ attempts = 0
    /\ calledIn = "-"
    /\ reqNode = DefaultNode
    /\ reqTun = FALSE
    /\ addrThisRun = FALSE
    /\ e2e = 0
    /\ startedOpen = FALSE

\* the caller exports linkNode
GenerateLink ==
    /\ link = <<>>
    /\ link' = generateLink(linkNode)
    /\ UNCHANGED <<linkNode, parsed>>
    /\ UNCHANGED supVars

\* the caller imports the exported link
ParseLink ==
    /\ link # <<>>
    /\ parsed' = parseLink(link)
    /\ UNCHANGED <<linkNode, link>>
    /\ UNCHANGED supVars

LinkNext == GenerateLink \/ ParseLink

SpecLink == LinkInit /\ [][LinkNext]_vars

\* ================================================================ claims
HasSig(sig) == \E i \in 1..Len(trace) : trace[i].sig = sig
\* scheduleReconnect ran in the last handler
Scheduled == HasSig("reconnecting") \/ HasSig("reconnectFailed")
\* the delay in ms of attempt n: 2 * 2^(n-1) seconds
BackoffMs(n) == 1000 * 2 * 2^(n - 1)

\* C1: once stop() has cancelled a pending retry timer (no process running)
\* and until the caller calls start() again, the timer is inactive,
\* attemptReconnect does not run and no process is spawned, also after the
\* cancelled timer's delay has elapsed.
C1_StopCancelsPendingReconnect ==
    stopCancelled =>
        /\ ~retryActive
        /\ op # "attemptReconnect"
        /\ ~HasSig("spawn")
        /\ ~isRunning(Sup)

\* C1 witness: stop() cancelled the retry timer when its delay had already
\* elapsed but the timeout had not been delivered yet
C1_Witness ==
    /\ op = "stop"
    /\ stopCancelled
    /\ retryDue
    /\ calledIn = "Reconnecting"
    /\ ~retryActive
    /\ retryCount = 0

\* C2 (as claimed): whenever the child reports started, retryCount is 0 afterwards
C2_RunningResetsRetryCount == HasSig("started") => retryCount = 0

\* C3 (as claimed): a crash exit of a running child, with the caller-requested
\* flag clear, leaves the retry timer pending and announces reconnecting(1, max)
C3_CrashSchedulesAttemptOne ==
    [][(/\ isRunning(Sup)
        /\ ~gracefulStop
        /\ op' = "finished"
        /\ trace'[1].text = "CrashExit")
       => (/\ retryActive'
           /\ \E i \in 1..Len(trace') :
                  /\ trace'[i].sig = "reconnecting"
                  /\ trace'[i].n = 1
                  /\ trace'[i].m = kMaxRetries)]_vars

\* C4: a stop() never schedules a reconnection and never reports a crash:
\* gracefulStop is set when the quit request, terminate() and kill() are
\* issued, and no exit observed inside stop(), whatever its exit status,
\* emits reconnecting, reconnectFailed or the crash error, or starts the timer.
C4_StopNeverReconnects ==
    op = "stop" =>
        /\ ~retryActive
        /\ ~Scheduled
        /\ ~HasSig("timerStart")
        /\ \A i \in 1..Len(trace) :
               /\ trace[i].sig \in {"postQuit", "terminate", "kill"} => trace[i].text = "flag"
               /\ trace[i].sig = "finished" => trace[i].m = 1
               /\ trace[i].sig # "errorOccurred"

\* C4 witness: a stop() during which the child exited with CrashExit after terminate()
C4_Witness ==
    /\ op = "stop"
    /\ \E i \in 1..Len(trace), j \in 1..Len(trace) :
           /\ i < j
           /\ trace[i].sig = "terminate"
           /\ trace[j].sig = "finished"
           /\ trace[j].text = "CrashExit"

StopActed == op = "stop" /\ (trace # <<>> \/ stopCancelled)

C7_ArtifactDeletedWhenRunEnds ==
    (/\ ~isRunning(Sup)
     /\ \/ op = "finished"
        \/ (op \in {"start", "attemptReconnect"} /\ HasSig("spawn")))
    => ~fileExists

\* C8: stop() with no running process and no pending retry timer changes no
\* member of the supervisor and emits nothing, however often it is called.
C8_StopWhenIdleIsNoOp ==
    [][(op' = "stop" /\ ~isRunning(Sup) /\ ~retryActive)
       => (/\ trace' = <<>>
           /\ UNCHANGED <<process, pstate, retryActive, retryInterval, retryDue,
                          controlAddr, lastError, configFilePath, fileExists,
                          gracefulStop, retryCount, lastNode, lastTunMode,
                          cfgNode, cfgTun, coreExecutable, files>>)]_vars

\* C8 witness: a stop() returned with retryCount still non-zero, which only the
\* early return of an idle supervisor leaves behind
C8_Witness ==
    /\ op = "stop"
    /\ retryCount # 0
    /\ ~isRunning(Sup)
    /\ ~retryActive
    /\ trace = <<>>

\* the result of a start() call in the current state
StartResult(node, tunMode, env) == start(Sup, node, tunMode, env)
NoSpawn(s) == \A i \in 1..Len(s.trace) : s.trace[i].sig # "spawn"

\* C9 (as claimed): in every state, start() with an invalid profile fails
\* with InvalidProfile and spawns nothing, whatever the other conditions
C9_InvalidProfileAlwaysReported ==
    \A node \in Nodes, tunMode \in BOOLEAN, env \in StartEnvs :
        ~isValid(node) =>
            LET r == StartResult(node, tunMode, env)
            IN  /\ r[2] = FALSE
                /\ NoSpawn(r[1])
                /\ r[1].lastError = "InvalidProfile"

\* C9 (amended): in every state, start() with an invalid profile fails and
\* spawns nothing; it reports InvalidProfile when no process is running and
\* the executable exists, and otherwise the error of the earlier check:
\* AlreadyRunning when a process is running, else ExecutableNotFound.
C9_InvalidProfileRejected ==
    \A node \in Nodes, tunMode \in BOOLEAN, env \in StartEnvs :
        ~isValid(node) =>
            LET r == StartResult(node, tunMode, env)
            IN  /\ r[2] = FALSE
                /\ NoSpawn(r[1])
                /\ r[1].process = process
                /\ r[1].pstate = pstate
                /\ r[1].lastError = IF isRunning(Sup) THEN "AlreadyRunning"
                                    ELSE IF ~env.exe THEN "ExecutableNotFound"
                                    ELSE "InvalidProfile"

\* C9 witness: a start() was rejected with InvalidProfile while the supervisor
\* was reconnecting (the call cancelled the pending timer)
C9_Witness ==
    /\ op = "start"
    /\ lastError = "InvalidProfile"
    /\ trace = <<Ev("errorOccurred", 0, 0, "InvalidProfile", <<>>)>>
    /\ calledIn = "Reconnecting"
    /\ ~retryActive
    /\ ~isRunning(Sup)

\* C10: every reconnecting(n, max) has 1 <= n <= kMaxRetries and max =
\* kMaxRetries, equals retryCount, and is followed in the same handler by the
\* start of the retry timer with 2 * 2^(n-1) seconds.
C10_BackoffDelay ==
    \A i \in 1..Len(trace) :
        trace[i].sig = "reconnecting" =>
            /\ trace[i].n \in 1..kMaxRetries
            /\ trace[i].m = kMaxRetries
            /\ trace[i].n = retryCount
            /\ retryActive
            /\ retryInterval = BackoffMs(trace[i].n)
            /\ \E j \in (i + 1)..Len(trace) :
                   /\ trace[j].sig = "timerStart"
                   /\ trace[j].n = BackoffMs(trace[i].n)

\* C10 witness: the third attempt was announced and the timer started with 8 s
C10_Witness ==
    /\ HasSig("reconnecting")
    /\ retryCount = kMaxRetries
    /\ retryInterval = 8000
    /\ retryActive


\* number of entries of the last handler's trace that carry the signal
CountSig(sig) == Cardinality({i \in 1..Len(trace) : trace[i].sig = sig})
\* the last handler gave the reconnection up
Abandoned ==
    /\ CountSig("reconnectFailed") = 1
    /\ ~HasSig("reconnecting")
    /\ ~HasSig("timerStart")
    /\ ~retryActive
    /\ ~isRunning(Sup)
    /\ retryCount = 0
\* the last handler was a reconnection attempt that did not reach Running, or
\* the crash exit of the child a reconnection attempt had spawned
AttemptFailed ==
    \/ op = "attemptReconnect" /\ ~isRunning(Sup)
    \/ op = "finished" /\ attempts > 0 /\ trace[1].text = "CrashExit"

\* C11: attempts counts the reconnection attempts since the caller's last
\* start() or stop().  When the kMaxRetries-th attempt in a row has failed (its
\* spawn failed, or the child it spawned crashed), reconnectFailed is emitted
\* exactly once, no timer is started, and the supervisor is Idle with
\* retryCount 0; an earlier failed attempt schedules the next one instead;
\* reconnectFailed is emitted at no other time and there is never an attempt
\* beyond the kMaxRetries-th.
C11_AbandonAfterMaxRetries ==
    /\ attempts <= kMaxRetries
    /\ (AttemptFailed /\ attempts = kMaxRetries) => Abandoned
    /\ (AttemptFailed /\ attempts < kMaxRetries) =>
           (retryActive /\ ~HasSig("reconnectFailed"))
    /\ HasSig("reconnectFailed") => (AttemptFailed /\ attempts = kMaxRetries)

\* C11 witness: the third attempt in a row found no executable and the
\* reconnection was given up
C11_Witness ==
    /\ op = "attemptReconnect"
    /\ attempts = kMaxRetries
    /\ lastError = "ExecutableNotFound"
    /\ CountSig("reconnectFailed") = 1
    /\ retryCount = 0
    /\ ~retryActive

\* the last handler announced reconnecting(n, kMaxRetries)
Reconnecting(n) ==
    \E i \in 1..Len(trace) :
        /\ trace[i].sig = "reconnecting"
        /\ trace[i].n = n
        /\ trace[i].m = kMaxRetries

\* C12 (as claimed): e2e is the position in the scenario: start(ProfileA,
\* tunMode = false) reaches Running (1), crash exit (2), the reconnection
\* attempt reaches Running (3), that child crashes (4), the next attempt
\* reaches Running (5).  The first crash announces reconnecting(1, 3), the
\* second reconnecting(2, 3), and the final successful start emits started and
\* leaves retryCount at 0.
C12_EndToEndTrace ==
    /\ (e2e = 2 /\ op = "finished") => Reconnecting(1)
    /\ (e2e = 4 /\ op = "finished") => Reconnecting(2)
    /\ (e2e = 5 /\ op = "attemptReconnect") => (HasSig("started") /\ retryCount = 0)

\* C13 (as claimed): a start() called while the supervisor is Running or
\* Reconnecting spawns no process and leaves the supervisor in the state it
\* was called in
C13_StartOnlyWhenIdle ==
    (op = "start" /\ calledIn \in {"Running", "Reconnecting"}) =>
        (~HasSig("spawn") /\ StateOf(Sup) = calledIn)

\* the handler that just ran went through the checks of startCore that follow
\* the isRunning check: it spawned a child or reported one of their errors
ProceededNow ==
    \E i \in 1..Len(trace') :
        \/ trace'[i].sig = "spawn"
        \/ /\ trace'[i].sig = "errorOccurred"
           /\ trace'[i].text \in {"ExecutableNotFound", "InvalidProfile",
                                  "ConfigMaterializationFailed"}

\* C13 (amended): a start() called while the child is running is rejected: it
\* emits nothing, spawns nothing, sets lastError to AlreadyRunning and
\* retryCount to 0 and changes nothing else.  A start() called while the retry
\* timer is pending is accepted: it cancels the timer, resets retryCount and
\* goes on to validate and spawn as a start() from Idle does, so the
\* supervisor is not Reconnecting afterwards.
C13_StartRejectedOnlyWhenRunning ==
    [][(op' = "start") =>
        /\ isRunning(Sup) =>
              /\ trace' = <<>>
              /\ lastError' = "AlreadyRunning"
              /\ retryCount' = 0
              /\ UNCHANGED <<process, pstate, retryActive, retryInterval, retryDue,
                             controlAddr, configFilePath, fileExists, gracefulStop,
                             lastNode, lastTunMode, cfgNode, cfgTun>>
        /\ StateOf(Sup) = "Reconnecting" =>
              /\ ~retryActive'
              /\ ProceededNow
              /\ \/ RunningNow /\ retryCount' = 0
                 \/ StateOf(Sup') = "Idle" /\ retryCount' = 0
        /\ (StateOf(Sup) = "Idle" /\ lastError' = "AlreadyRunning") =>
              lastError = "AlreadyRunning"]_vars

\* C13 witness: a start() called while the retry timer was pending cancelled
\* the timer and spawned a child that is now running
C13_Witness ==
    /\ op = "start"
    /\ calledIn = "Reconnecting"
    /\ HasSig("spawn")
    /\ HasSig("started")
    /\ isRunning(Sup)
    /\ ~retryActive
    /\ retryCount = 0

\* C14 (as claimed): when a start() or a stop() called by the caller has
\* returned, retryCount is 0
C14_ExternalCallResetsRetryCount ==
    op \in {"start", "stop"} => retryCount = 0

\* C15: reqNode and reqTun are the arguments of the caller's most recent
\* start() that spawned a child; cfgNode and cfgTun are what the config file
\* handed to the spawned child was generated from.  A reconnection attempt
\* that spawns a child generates its config from reqNode and reqTun, and
\* while a child is running or a reconnection is pending the stored request
\* (lastNode, lastTunMode) is that one, whatever start() calls were rejected
\* in between.
C15_ReconnectReplaysLastSpawningStart ==
    /\ (op = "attemptReconnect" /\ HasSig("spawn")) =>
           (cfgNode = reqNode /\ cfgTun = reqTun)
    /\ (isRunning(Sup) \/ retryActive) =>
           (lastNode = reqNode /\ lastTunMode = reqTun)

\* C15 witness: a reconnection attempt spawned the child with the request of
\* the start() that had spawned it, after a start() had been rejected as
\* already running
C15_Witness ==
    /\ op = "attemptReconnect"
    /\ HasSig("spawn")
    /\ lastError = "AlreadyRunning"
    /\ reqNode = ProfileA
    /\ reqTun
    /\ cfgNode = ProfileA
    /\ cfgTun

\* positions of the trace of the handler that just ran that carry the signal
PosNow(sig) == {i \in 1..Len(trace') : trace'[i].sig = sig}

\* C16 (as claimed): in a stop() the quit request is posted only if the running
\* child has announced a control address; terminate() is issued only if no
\* quit request was posted or the child did not exit in the wait that followed
\* it; kill() is issued only after terminate() and without the child having
\* exited in between; once the exit of the child has been observed no
\* quit request, terminate() or kill() follows.
C16_StopEscalationOrder ==
    [][(op' = "stop") =>
        /\ PosNow("postQuit") # {} => addrThisRun
        /\ \A t \in PosNow("terminate"), q \in PosNow("postQuit") : q < t
        /\ \A k \in PosNow("kill") : \E t \in PosNow("terminate") : t < k
        /\ \A f \in PosNow("finished") :
               \A i \in PosNow("postQuit") \cup PosNow("terminate") \cup PosNow("kill") :
                   i < f]_vars

\* C17: in every reachable state sendQuitRequest with an empty control
\* address changes nothing and posts nothing; with a non-empty address its
\* only effect is one POST to http://<address>/quit, no errorOccurred and no
\* change of the supervisor.  A stop() therefore posts at most one request,
\* always to the URL of the stored address, and emits no errorOccurred
\* whether or not the child exits in the wait that follows the request.
C17_QuitRequestBestEffort ==
    /\ controlAddr = <<>> => sendQuitRequest(Sup) = Sup
    /\ controlAddr # <<>> =>
           sendQuitRequest(Sup) =
               [Sup EXCEPT !.trace =
                   <<Ev("postQuit", 0, 0, Flag(Sup),
                        <<"h","t","t","p",":","/","/">> \o controlAddr
                            \o <<"/","q","u","i","t">>)>>]
    /\ op = "stop" =>
           /\ CountSig("postQuit") <= 1
           /\ ~HasSig("errorOccurred")
           /\ \A i \in 1..Len(trace) :
                  trace[i].sig = "postQuit" =>
                      /\ i = 1
                      /\ \E a \in Addrs :
                             trace[i].line = <<"h","t","t","p",":","/","/">> \o a
                                                 \o <<"/","q","u","i","t">>

\* C17 witness: a stop() posted the quit request to the announced address, the
\* child did not exit in the wait that followed and was terminated; nothing
\* was reported as an error
C17_Witness ==
    /\ op = "stop"
    /\ Len(trace) >= 2
    /\ trace[1].sig = "postQuit"
    /\ trace[1].line = <<"h","t","t","p",":","/","/","2","/","q","u","i","t">>
    /\ trace[2].sig = "terminate"
    /\ ~HasSig("errorOccurred")

\* the start() that just returned failed: it did not spawn a child that is
\* now running
StartFailed ==
    /\ op = "start"
    /\ ~(HasSig("spawn") /\ HasSig("started") /\ isRunning(Sup))

\* C18 (as claimed): every start() that fails emits errorOccurred
C18_FailedStartEmitsError ==
    StartFailed => HasSig("errorOccurred")

\* the last handler reported one of the validation or startup failures of
\* startCore
StartFailureReported ==
    \E i \in 1..Len(trace) :
        /\ trace[i].sig = "errorOccurred"
        /\ trace[i].text \in {"ExecutableNotFound", "InvalidProfile",
                              "ConfigMaterializationFailed", "StartupTimeout"}

\* C19 (as claimed): a validation or startup failure of startCore, in a
\* start() or in a reconnection attempt, never starts the retry timer
C19_StartFailureNeverRetried ==
    (op \in {"start", "attemptReconnect"} /\ StartFailureReported) =>
        (~HasSig("timerStart") /\ ~retryActive)

\* C19 (amended): a failure of startCore in a start() called by the caller
\* never schedules a reconnection: the retry timer is not started, nothing is
\* announced and retryCount is 0.  A failure of startCore in a reconnection
\* attempt counts as a failed attempt: scheduleReconnect runs, so the timer
\* is started for the next attempt with the next delay unless this was
\* attempt kMaxRetries, in which case the reconnection is given up.
C19_OnlyExternalStartFailureNotRetried ==
    /\ (op = "start" /\ StartFailureReported) =>
           /\ ~HasSig("timerStart")
           /\ ~Scheduled
           /\ ~retryActive
           /\ retryCount = 0
    /\ (op = "attemptReconnect" /\ StartFailureReported) =>
           /\ ~isRunning(Sup)
           /\ attempts < kMaxRetries =>
                  /\ Reconnecting(attempts + 1)
                  /\ retryActive
                  /\ retryInterval = BackoffMs(attempts + 1)
                  /\ retryCount = attempts + 1
           /\ attempts = kMaxRetries => Abandoned

\* C19 witness: the first reconnection attempt found no executable and the
\* retry timer was started for the second attempt
C19_Witness ==
    /\ op = "attemptReconnect"
    /\ attempts = 1
    /\ trace[2] = Ev("errorOccurred", 0, 0, "ExecutableNotFound", <<>>)
    /\ Reconnecting(2)
    /\ HasSig("timerStart")
    /\ retryActive
    /\ retryInterval = 4000

\* the last handler reported the error err through errorOccurred
Reported(err) ==
    \E i \in 1..Len(trace) : trace[i] = Ev("errorOccurred", 0, 0, err, <<>>)

\* C20: a start() that fails as already running, for a missing executable, an
\* invalid profile or a config that could not be written spawns nothing and
\* leaves the process handle and its state as they were (so a child that ran
\* before the call is the one still running); a start() that fails with a
\* startup timeout has spawned a child, and when it returns the handle is
\* null and isRunning() is false.
C20_FailedStartLeavesNoProcess ==
    [][(op' = "start") =>
        LET now(err) == \E i \in 1..Len(trace') :
                            trace'[i] = Ev("errorOccurred", 0, 0, err, <<>>)
        IN  /\ (\/ isRunning(Sup)
                \/ now("ExecutableNotFound")
                \/ now("InvalidProfile")
                \/ now("ConfigMaterializationFailed")) =>
                   /\ ~SpawnedNow
                   /\ UNCHANGED <<process, pstate>>
                   /\ RunningNow = isRunning(Sup)
            /\ now("StartupTimeout") =>
                   /\ SpawnedNow
                   /\ process' = "null"
                   /\ ~RunningNow
            /\ ~SpawnedNow =>
                   (\/ isRunning(Sup) /\ lastError' = "AlreadyRunning"
                    \/ now("ExecutableNotFound")
                    \/ now("InvalidProfile")
                    \/ now("ConfigMaterializationFailed"))]_vars

\* C20 witness: a start() spawned a child that did not confirm its start in
\* time; the handle is gone when start() has returned
C20_Witness ==
    /\ op = "start"
    /\ HasSig("spawn")
    /\ ~HasSig("started")
    /\ Reported("StartupTimeout")
    /\ lastError = "StartupTimeout"
    /\ process = "null"
    /\ ~isRunning(Sup)

\* the lines of the chunk that was just read, as received (cut at the line
\* breaks and nothing else)
RawLinesNow == split(lastData')
IsAnnouncement(line) == startsWith(line, Marker)
\* the log events of the handler that just ran carry exactly these lines
LoggedNow(line) ==
    \E i \in 1..Len(trace') : trace'[i] = Ev("logReceived", 0, 0, "", line)

\* C21 (as claimed): every received line of the primary channel that begins
\* with CONTROL_ADDR= is logged as received, and the control address becomes
\* what follows the marker in the latest such line
C21_AnnouncementSetsExactValue ==
    [][(op' = "stdout") =>
        LET anns == SelectSeq(RawLinesNow, IsAnnouncement)
        IN  /\ \A i \in 1..Len(anns) : LoggedNow(anns[i])
            /\ anns # <<>> => controlAddr' = mid(anns[Len(anns)], 13)]_vars

\* C21 (amended): the lines of a chunk are trimmed before they are looked at.
\* Every line of the chunk whose trimmed form begins with CONTROL_ADDR= is
\* logged in its trimmed form, the control address becomes what follows the
\* marker in the trimmed form of the latest such line, and a chunk without
\* such a line leaves the control address as it was.
C21_AnnouncementSetsTrimmedValue ==
    [][(op' = "stdout") =>
        LET trimmedLines == [i \in 1..Len(RawLinesNow) |-> trimmed(RawLinesNow[i])]
            anns == SelectSeq(trimmedLines, IsAnnouncement)
        IN  /\ \A i \in 1..Len(anns) : LoggedNow(anns[i])
            /\ controlAddr' = IF anns = <<>> THEN controlAddr
                              ELSE mid(anns[Len(anns)], 13)]_vars

\* C21 witness: one chunk carried an announcement without a value and then an
\* announcement of address 1 followed by a blank; the address is 1
C21_Witness ==
    /\ op = "stdout"
    /\ lastData = Marker \o <<"\n">> \o Marker \o <<"1", " ">>
    /\ controlAddr = <<"1">>
    /\ trace = <<Ev("logReceived", 0, 0, "", Marker),
                 Ev("logReceived", 0, 0, "", Marker \o <<"1">>)>>

\* C22 (as claimed): a run that follows an earlier run of the same supervisor
\* (the handler that just ran spawned a child and a config had been written
\* before) writes its config to a path that differs from the earlier one
C22_ConfigPathUniquePerRun ==
    [][(SpawnedNow /\ configFilePath # "") => configFilePath' # configFilePath]_vars

\* C23 (as claimed): the control address is empty whenever the supervisor is
\* Idle or Reconnecting, and when a handler has spawned a child
C23_ControlAddrScopedToRun ==
    /\ StateOf(Sup) \in {"Idle", "Reconnecting"} => controlAddr = <<>>
    /\ HasSig("spawn") => controlAddr = <<>>

\* C24 (as claimed): when stop() has returned no child is running, the process
\* handle is null and the retry timer is not pending
C24_StopReleasesEverything ==
    op = "stop" =>
        /\ ~isRunning(Sup)
        /\ process = "null"
        /\ ~retryActive

\* in the trace of the handler that just ran, reconnecting(n, kMaxRetries)
\* comes after position from and before the start of the timer with the
\* delay of attempt n
AnnouncedThenTimerNow(from, n) ==
    \E j, k \in 1..Len(trace') :
        /\ from < j /\ j < k
        /\ trace'[j] = Ev("reconnecting", n, kMaxRetries, "", <<>>)
        /\ trace'[k] = Ev("timerStart", BackoffMs(n), 0, "", <<>>)

\* C25: when a crash schedules attempt n, stopped comes first, then
\* reconnecting(n, kMaxRetries), then the start of the timer.  When the timer
\* of attempt n fires (it is pending with the delay of attempt n, n =
\* retryCount) the first effect of attemptReconnect is the log line of
\* attempt n of kMaxRetries and a spawn comes after it; if that attempt fails,
\* attempt n + 1 is announced and its timer started after the log line, in
\* that order, without a stopped notification.
C25_ReconnectNotificationOrder ==
    [][/\ (op' = "finished" /\ PosNow("reconnecting") # {}) =>
              \E i \in PosNow("stopped") :
                  /\ PosNow("stopped") = {i}
                  /\ AnnouncedThenTimerNow(i, retryCount')
       /\ (op' = "attemptReconnect") =>
              /\ retryInterval = BackoffMs(retryCount)
              /\ trace'[1] = Ev("logReceived", retryCount, kMaxRetries, "attempting", <<>>)
              /\ PosNow("stopped") = {}
              /\ \A i \in PosNow("spawn") : i > 1
              /\ PosNow("reconnecting") # {} =>
                     AnnouncedThenTimerNow(1, retryCount + 1)]_vars

\* C25 witness: the timer of attempt 2 fired, the attempt was logged as
\* attempt 2 of 3 and then spawned the child
C25_Witness ==
    /\ op = "attemptReconnect"
    /\ attempts = 2
    /\ trace[1] = Ev("logReceived", 2, kMaxRetries, "attempting", <<>>)
    /\ trace[2] = Sig("spawn")
    /\ isRunning(Sup)

\* C26 (as claimed): a read handler of either channel forwards no empty line:
\* no log event carries an empty line, or the bare prefix of the diagnostic
\* channel
C26_NoEmptyLineForwarded ==
    op \in {"stdout", "stderr"} =>
        \A i \in 1..Len(trace) :
            trace[i].sig = "logReceived" =>
                (trace[i].line # <<>> /\ trace[i].line # ErrPrefix)

\* the non-blank lines of a chunk, trimmed, in order
IsText(line) == line # <<>>
TextLines(chunk) ==
    LET raw == split(chunk)
    IN  SelectSeq([i \in 1..Len(raw) |-> trimmed(raw[i])], IsText)
\* the log events of a trace whose line is not empty (nor the bare prefix of
\* the diagnostic channel), in order
HasContent(e) == e.line # <<>> /\ e.line # ErrPrefix
LoggedText(tr) == SelectSeq(tr, HasContent)

\* C27: a read of the diagnostic channel leaves the control address as it
\* was, whatever the chunk contains, and every log event it emits begins with
\* "[ERR] "; the non-blank lines of the chunk are forwarded in order, each as
\* the prefix followed by the trimmed line.  A read of the primary channel
\* forwards the same lines without the prefix.
C27_DiagnosticLinesPrefixed ==
    [][(op' \in {"stdout", "stderr"}) =>
        LET lines  == TextLines(lastData')
            logged == LoggedText(trace')
            prefix == IF op' = "stderr" THEN ErrPrefix ELSE <<>>
        IN  /\ op' = "stderr" => controlAddr' = controlAddr
            /\ \A i \in 1..Len(trace') :
                   /\ trace'[i].sig = "logReceived"
                   /\ startsWith(trace'[i].line, ErrPrefix) = (op' = "stderr")
            /\ Len(logged) = Len(lines)
            /\ \A i \in 1..Len(lines) :
                   logged[i] = Ev("logReceived", 0, 0, "", prefix \o lines[i])]_vars

\* C27 witness: an announcement arrived on the diagnostic channel after the
\* primary channel had announced address 1; it was forwarded with the prefix
\* and the address is still 1
C27_Witness ==
    /\ op = "stderr"
    /\ lastData = Marker \o <<"2">>
    /\ trace = <<Ev("logReceived", 0, 0, "", ErrPrefix \o Marker \o <<"2">>)>>
    /\ controlAddr = <<"1">>

\* C28 (as claimed): coreExecutable is the first candidate that exists, in the
\* order next to the application, then one directory up, and the bare
\* fallback name when none exists; with the fallback name and the executable
\* in PATH a start() called on the idle supervisor does not fail with
\* ExecutableNotFound
C28_ExecutableResolution ==
    /\ \A i \in 1..Len(Candidates) :
           (/\ Candidates[i] \in files
            /\ \A j \in 1..(i - 1) : Candidates[j] \notin files) =>
               coreExecutable = absoluteFilePath(Candidates[i])
    /\ (\A i \in 1..Len(Candidates) : Candidates[i] \notin files) =>
           coreExecutable = Fallback
    /\ (/\ op = "start"
        /\ calledIn = "Idle"
        /\ coreExecutable = Fallback
        /\ PathFile \in files) => ~Reported("ExecutableNotFound")

\* C29: the supervisor has one process handle, and a handler creates a new
\* QProcess only when the child of the current one is not running, so at most
\* one child that the supervisor owns is alive; after every handler the retry
\* timer is not pending if a child is running.
C29_OneProcessNoTimerWhileRunning ==
    [][/\ SpawnedNow => ~isRunning(Sup)
       /\ ~(retryActive' /\ RunningNow)]_vars

\* C29 witness: a start() called while a reconnection was pending spawned the
\* child after an earlier child had crashed; the timer is not pending
C29_Witness ==
    /\ op = "start"
    /\ calledIn = "Reconnecting"
    /\ HasSig("spawn")
    /\ isRunning(Sup)
    /\ ~retryActive
    /\ retryInterval = 0

\* C30: attempts counts the reconnection attempts since the caller's last
\* start() or stop(); it never exceeds kMaxRetries, and retryCount stays
\* within 0..kMaxRetries.  This includes the attempts that reached Running
\* and whose child crashed later: once kMaxRetries attempts have been made no
\* timer is pending, whatever their outcomes were.
C30_ReconnectionBounded ==
    /\ attempts \in 0..kMaxRetries
    /\ retryCount \in 0..kMaxRetries
    /\ retryActive => attempts < kMaxRetries

\* C30 witness: the kMaxRetries-th attempt reached Running and its child
\* crashed later; no further attempt is scheduled
C30_Witness ==
    /\ op = "finished"
    /\ attempts = kMaxRetries
    /\ trace[1].text = "CrashExit"
    /\ ~retryActive
    /\ HasSig("reconnectFailed")

\* C31: with the timer's delay elapsing and its timeout being delivered, a
\* supervisor that is Reconnecting does not stay so: unless the caller calls
\* start() or stop() first, an attempt leaves a child running and reports
\* started, or the reconnection is abandoned with reconnectFailed and the
\* supervisor Idle.
C31_ReconnectingIsLeft ==
    (StateOf(Sup) = "Reconnecting") ~>
        \/ op = "attemptReconnect" /\ HasSig("started") /\ StateOf(Sup) = "Running"
        \/ HasSig("reconnectFailed") /\ StateOf(Sup) = "Idle"
        \/ op \in {"start", "stop"}

\* C31 witness: the second attempt, made after the first had failed to start
\* a child, left a child running
C31_Witness ==
    /\ op = "attemptReconnect"
    /\ attempts = 2
    /\ retryCount = 2
    /\ CountSig("started") = 1
    /\ StateOf(Sup) = "Running"
    /\ lastError # ""

\* C32 (as claimed): gracefulStop is false whenever stop() has returned, and
\* an exit that the event loop observes afterwards is never taken for a
\* caller-requested one: a crash exit then schedules a reconnection
C32_GracefulStopDoesNotLeak ==
    /\ op = "stop" => ~gracefulStop
    /\ op = "finished" => trace[1].m = 0
    /\ (op = "finished" /\ trace[1].text = "CrashExit") => Scheduled

\* the started and stopped notifications of the handler that just ran, taken
\* in order after a state in which open tells whether a started was
\* unanswered, alternate
AlternatesNow(open) ==
    LET at == {i \in 1..Len(trace') : trace'[i].sig \in {"started", "stopped"}}
        before(i) == {j \in at : j < i}
        prev(i) == IF before(i) = {} THEN open
                   ELSE trace'[CHOOSE j \in before(i) : \A k \in before(i) : k <= j].sig
                            = "started"
    IN  \A i \in at : (trace'[i].sig = "started") = ~prev(i)

\* C33 (as claimed): started and stopped alternate, beginning with started:
\* started is emitted only when no earlier started is unanswered, and stopped
\* only when one is
C33_StartedStoppedAlternate == [][AlternatesNow(startedOpen)]_vars

\* the errors with which start() fails before a process is spawned
SyncFailures ==
    {"AlreadyRunning", "ExecutableNotFound", "InvalidProfile", "ConfigMaterializationFailed"}
\* r, the result of a start() call, is a synchronous failure
FailsSynchronously(r) ==
    /\ ~r[2]
    /\ r[1].lastError \in SyncFailures
    /\ \A i \in 1..Len(r[1].trace) : r[1].trace[i].sig # "spawn"
\* the members that the claim calls the run state
RunState(s) == <<s.process, s.lastNode, s.lastTunMode, s.controlAddr, s.configFilePath>>

\* C34 (as claimed): in every reachable state, every start() that fails
\* synchronously leaves the process handle, lastNode, lastTunMode, the
\* control address and the config path as they were
C34_FailedStartChangesNothing ==
    \A node \in Nodes, tunMode \in BOOLEAN, env \in StartEnvs :
        LET r == start(Sup, node, tunMode, env)
        IN  FailsSynchronously(r) => RunState(r[1]) = RunState(Sup)

\* C34 (amended): in every reachable state, a start() that fails with
\* AlreadyRunning, ExecutableNotFound or InvalidProfile leaves the process
\* handle, lastNode, lastTunMode, the control address and the config path as
\* they were; one that fails with ConfigMaterializationFailed leaves the
\* process handle and the control address as they were, but has stored the
\* request in lastNode and lastTunMode and has emptied the config path.
C34_FailedStartFrame ==
    \A node \in Nodes, tunMode \in BOOLEAN, env \in StartEnvs :
        LET r == start(Sup, node, tunMode, env)
        IN  FailsSynchronously(r) =>
                IF r[1].lastError = "ConfigMaterializationFailed"
                THEN /\ r[1].process = process
                     /\ r[1].controlAddr = controlAddr
                     /\ r[1].lastNode = node
                     /\ r[1].lastTunMode = tunMode
                     /\ r[1].configFilePath = ""
                ELSE RunState(r[1]) = RunState(Sup)

\* C34 witness: after a run whose config file is still on disk, a start() with
\* another profile failed to write its config: the stored profile is no
\* longer that of the run and the config path is empty
C34_Witness ==
    /\ op = "start"
    /\ lastError = "ConfigMaterializationFailed"
    /\ HasSig("errorOccurred")
    /\ ~HasSig("spawn")
    /\ configFilePath = ""
    /\ fileExists
    /\ lastNode # reqNode
    /\ isValid(reqNode)

\* the settings of a node that the claim compares: protocol and credential,
\* server address and port, name, transport mode and the transport, ECH, flow
\* and PQC settings
Settings(n) ==
    [appProtocol |-> n.appProtocol,
     credential |-> IF n.appProtocol = "TROJAN" THEN n.trojanPassword ELSE n.uuid,
     serverAddress |-> n.serverAddress, serverPort |-> n.serverPort,
     name |-> n.name, transportMode |-> n.transportMode,
     wsPath |-> n.wsPath, grpcServiceName |-> n.grpcServiceName,
     userAgent |-> n.userAgent, xhttpMode |-> n.xhttpMode, xhttpPath |-> n.xhttpPath,
     enableECH |-> n.enableECH, echDomain |-> n.echDomain, dnsServer |-> n.dnsServer,
     enableFlow |-> n.enableFlow, enablePQC |-> n.enablePQC]

\* C35 (as claimed): the node parsed from the link generated for a valid node
\* has the settings of that node
C35_ShareLinkRoundTrip ==
    [][link # <<>> => Settings(parsed') = Settings(linkNode)]_vars

====
